---- MODULE Spec2Model ----
(***************************************************************************)
(* Job tracking and result reconciliation of the extraction gateway:       *)
(* the in-process cache (jobResultsMap), the durable job records           *)
(* (extraction_jobs table) and the blob store (S3 bucket), driven by the   *)
(* three HTTP handlers POST extract, GET status/:jobId and PUT :jobId.     *)
(* Every await of a handler is one step; the synchronous code that follows *)
(* an await and touches the cache is a step of its own when the awaited    *)
(* I/O read or wrote a store, because other requests run in between.       *)
(***************************************************************************)
EXTENDS Integers, Sequences, FiniteSets, TLC

\* ---------------------------------------------------------------- bounds
MaxJobs == 1
MaxProcs == 2
MaxCalls == 3
MaxRestarts == 1
MaxFaults == 1
MaxTime == 2
MaxTokens == 1
MaxGuards == 1

\* Lifetime of a session in clock ticks (7 days in the code).
SessionTTL == 1

\* The number of status requests after which the browser client gives up.
MAX_POLL_ATTEMPTS == 180

JobIds == 1..MaxJobs
Procs == 1..MaxProcs

\* ---------------------------------------------------------------- values
\* Extraction results are opaque to the gateway; the first result a job gets
\* is called r1, every later one (an edit, an engine status answer) is any.
Results == {"r1", "r2"}
FirstResult == "r1"
Null == "null"

\* The users that hold a session. Users are interchangeable: the one that
\* submits documents is called u1.
Users == {"u1", "u2"}
Submitter == "u1"

Unknown == <<"u", "n", "k", "n", "o", "w", "n">>
FileNames == {<<"a">>, <<"a", " ">>}

Unreserved == {"a", "u", "n", "k", "o", "w", "j", "s", "."}

encodeChar(c) ==
    IF c \in Unreserved THEN <<c>>
    ELSE IF c = " " THEN <<"%", "2", "0">>
    ELSE IF c = "%" THEN <<"%", "2", "5">>
    ELSE <<"%", "x", "x">>

RECURSIVE encodeURIComponent(_)
encodeURIComponent(s) ==
    IF s = <<>> THEN <<>>
    ELSE encodeChar(Head(s)) \o encodeURIComponent(Tail(s))

JsonSuffix == <<".", "j", "s", "o", "n">>

originalKey(j, fileName) == <<"originals", j, encodeURIComponent(fileName)>>
outputKey(j, fileName) == <<"output", j, encodeURIComponent(fileName) \o JsonSuffix>>
legacyKey(j, fileName) == <<"output", j, fileName \o JsonSuffix>>
\* keysToTry with the two keys swapped.
keysToTry_legacyFirst(j, fileName) == <<legacyKey(j, fileName), outputKey(j, fileName)>>
keysToTry(j, fileName) == <<outputKey(j, fileName), legacyKey(j, fileName)>>

EmptyUrl == <<>>
uploadUrl(key) == <<"https", key>>

\* ---------------------------------------------------------------- state
VARIABLES
    cache,      \* jobResultsMap: job id -> entry
    db,         \* extraction_jobs rows: job id -> row
    blob,       \* bucket: key -> content
    calls,      \* request-handling tasks: slot -> handler position and locals
    used,       \* job ids already generated by startExtraction or persisted
    count,      \* requests started, process restarts and store failures so far
    hist,       \* per job id: what has been observed about the job
    callers,    \* the users that hold a session and send requests
    sessions,   \* session table: token -> row
    users,      \* user table: the ids that have a row
    now,        \* the server's clock
    guards,     \* requests inside SessionGuard.canActivate: slot -> position
    revoked,    \* tokens for which signOut has returned true
    client      \* a pollExtractionStatus call in the browser

authVars == <<sessions, users, now, guards, revoked>>

\* What the handlers of the extraction controller never write.
aux == <<callers, authVars, client>>

vars == <<cache, db, blob, calls, used, count, hist, aux>>

NoEntry == [status |-> "absent", fileUrl |-> EmptyUrl, fileName |-> <<>>,
            data |-> Null, error |-> Null]
NoRow == [status |-> "absent", userId |-> Null, fileName |-> <<>>,
          fileUrl |-> EmptyUrl, result |-> Null, error |-> Null]
NoResp == [kind |-> "none", status |-> Null, file_url |-> EmptyUrl,
           data |-> Null, error |-> Null]

\* What has been observed about a job id:
\*   startRes   result of the startExtraction that returned success, until
\*              an updateResult on the job begins
\*   timedOut   the engine call of the job timed out
\*   prevResp   response of the latest getStatus served from cache or blob,
\*              until the cache entry is written by another request
\*   lastEdit   result of the latest updateResult that returned success,
\*              until the next updateResult on the job begins
\*   failedEdit result of an updateResult whose durable update failed after
\*              its blob write replaced a different result
\*   full       result held by cache, blob and durable record together when
\*              the cache was lost
\*   unsaved    the createExtractionJob that follows startExtraction failed
\*   failed     the startExtraction of the job failed
\*   stored     the key under which startExtraction stored the job's result
NoHist == [startRes |-> Null, timedOut |-> FALSE, prevResp |-> NoResp,
           lastEdit |-> Null, failedEdit |-> Null, full |-> Null,
           unsaved |-> FALSE, failed |-> FALSE, stored |-> <<>>]

\* A task slot. op/job/pc/name/url/data/kidx/resp are the handler's position
\* and locals; the remaining fields record what the request saw:
\*   faults    stores whose call failed inside this request
\*   wrote     stores an updateResult request has written
\*   blobCalls blob-store calls made by this request
\*   clean     no other request wrote a store of the job since this one began
\*   src       where a status response came from: cache, blob or engine
\*   had       the result that cache, blob and row held together when the
\*             request began, or held together when the cache was lost
\*   seen      what hist held for the job when the request began
\*   eng       how the engine answered this request's HTTP call
\*   rowRes    the result column of the row a getStatus looked up
\*   dbCalls   record-store calls made by a getStatus
\*   rival     result of another updateResult on the job that returned
\*             success while this updateResult ran
\*   created   this updateResult inserted the row of the job
\*   user      request.user.id, set by SessionGuard before the handler runs
Idle == [op |-> "idle", job |-> 0, pc |-> "idle", name |-> <<>>,
         url |-> EmptyUrl, data |-> Null, kidx |-> 0, resp |-> NoResp,
         old |-> Null, faults |-> {}, wrote |-> {}, blobCalls |-> 0,
         clean |-> TRUE, src |-> "none", had |-> Null, seen |-> NoHist,
         eng |-> "none", rowRes |-> Null, dbCalls |-> 0, rival |-> Null,
         created |-> FALSE, user |-> Null]

put(b, k, v) == [x \in (DOMAIN b) \cup {k} |-> IF x = k THEN v ELSE b[x]]

\* A job persisted by an earlier deployment: a row and a result object under
\* the unencoded key.
legacyRow(fileName, r) ==
    [status |-> "completed", userId |-> Submitter, fileName |-> fileName,
     fileUrl |-> uploadUrl(<<"originals", 1, fileName>>), result |-> r,
     error |-> Null]

InitStores ==
    /\ cache = [j \in JobIds |-> NoEntry]
    /\ calls = [p \in Procs |-> Idle]
    /\ count = [calls |-> 0, restarts |-> 0, faults |-> 0]
    /\ hist = [j \in JobIds |-> NoHist]
    /\ \/ /\ db = [j \in JobIds |-> NoRow]
          /\ blob = << >>
          /\ used = {}
       \/ \E fileName \in FileNames :
          /\ db = [j \in JobIds |-> IF j = 1 THEN legacyRow(fileName, FirstResult) ELSE NoRow]
          /\ blob = put(<< >>, legacyKey(1, fileName), FirstResult)
          /\ used = {1}

Tokens == 1..MaxTokens
GuardSlots == 1..MaxGuards
NoToken == 0
NoSession == [userId |-> Null, expiresAt |-> 0]

\* A request inside the guard. pc/token/session are the guard's position and
\* locals; user is request.user.id; outcome is "running", "admitted" or the
\* message of the UnauthorizedException. The remaining fields record what
\* was true when the guard read the tables:
\*   late     signOut had returned true for the token when the request came
\*   matched  a session row with the token existed
\*   fresh    the clock had not passed the row's expiresAt
\*   userOk   the session's user had a row
IdleGuard == [pc |-> "idle", token |-> NoToken, session |-> NoSession,
              user |-> Null, outcome |-> "running", late |-> FALSE,
              matched |-> FALSE, fresh |-> FALSE, userOk |-> FALSE]

\* What fetch resolved with: response.ok and the fields of the JSON body.
NoAnswer == [ok |-> FALSE, status |-> Null, data |-> Null, error |-> Null]

\* pollExtractionStatus at the head of its loop. attempts and the response
\* are its locals; result is the returned data, thrown the message of the
\* Error; requests counts the fetches, sawData records that a response
\* reported completed with data.
InitClient == [pc |-> "loop", attempts |-> 0, response |-> NoAnswer,
               result |-> Null, thrown |-> Null, requests |-> 0,
               sawData |-> FALSE]

InitAuth ==
    /\ sessions = [t \in Tokens |-> NoSession]
    /\ users = {}
    /\ now = 0
    /\ guards = [g \in GuardSlots |-> IdleGuard]
    /\ revoked = {}
    /\ client = InitClient

\* One user holds a session.
Init ==
    /\ InitStores
    /\ callers = {Submitter}
    /\ InitAuth

\* ---------------------------------------------------------------- helpers
set(p, rec) == calls' = [calls EXCEPT ![p] = rec]

okResp(status, url, data, error) ==
    [kind |-> "ok", status |-> status, file_url |-> url, data |-> data,
     error |-> error]
errResp(kind, msg) ==
    [kind |-> kind, status |-> Null, file_url |-> EmptyUrl, data |-> Null,
     error |-> msg]

\* Other in-flight requests on job j see that a store of j was written.
dirty(cs, p, j) ==
    [q \in Procs |-> IF q # p /\ cs[q].job = j /\ cs[q].op # "idle"
                     THEN [cs[q] EXCEPT !.clean = FALSE] ELSE cs[q]]

\* A call to the blob store or the record store either works or fails; the
\* failures of one run are counted.
works == UNCHANGED count
fails ==
    /\ count.faults < MaxFaults
    /\ count' = [count EXCEPT !.faults = @ + 1]

\* A step of task p that writes a store of its job.
setW(p, rec) == calls' = dirty([calls EXCEPT ![p] = rec], p, rec.job)

\* The result object of job j: the object under the URL-encoded key built
\* from the row's fileName, else the one under the unencoded key.
resultBlob(j) ==
    LET enc == outputKey(j, db[j].fileName)
        leg == legacyKey(j, db[j].fileName) IN
    IF db[j].status = "absent" THEN Null
    ELSE IF enc \in DOMAIN blob THEN blob[enc]
    ELSE IF leg \in DOMAIN blob THEN blob[leg]
    ELSE Null

\* The result that the cache entry, the row's result object and the row
\* agree on, if they do.
held(j) ==
    IF /\ cache[j].status = "completed"
       /\ db[j].status # "absent"
       /\ cache[j].data # Null
       /\ resultBlob(j) = cache[j].data
    THEN cache[j].data ELSE Null

begin(op, j, pc, user) ==
    [Idle EXCEPT !.op = op, !.job = j, !.pc = pc, !.user = user,
                 !.seen = IF op = "status" THEN hist[j] ELSE NoHist]

\* A new request takes the lowest free slot (slots are interchangeable).
canStart(p) ==
    /\ calls[p].op = "idle"
    /\ \A q \in Procs : q < p => calls[q].op # "idle"
    /\ count.calls < MaxCalls

\* ------------------------------------------------- POST extract
\* extractDocument + startExtraction up to the first await (uploadFile).
\* The generated job id is fresh; ids are interchangeable, the lowest is taken.
StartExtract(p) ==
    /\ canStart(p)
    /\ \E j \in JobIds \ used, fileName \in FileNames :
        /\ \A i \in JobIds \ used : j <= i
        /\ set(p, [begin("extract", j, "upload", Submitter) EXCEPT !.name = fileName])
        /\ used' = used \cup {j}
    /\ count' = [count EXCEPT !.calls = @ + 1]
    /\ UNCHANGED <<cache, db, blob, hist>>

\* How the awaited call of startExtraction failed: the engine answered with
\* an HTTP error status (4xx, 5xx), the connection was refused, the request
\* timed out, another network error, or "none": the blob store threw.
EngineFailures == {"4xx", "5xx", "refused", "timeout", "other"}
errorMessage(eng) ==
    CASE eng = "4xx" -> "status 4xx"
      [] eng = "5xx" -> "status 5xx"
      [] eng = "refused" -> "connect ECONNREFUSED"
      [] eng = "timeout" -> "timeout exceeded"
      [] eng = "other" -> "network error"
      [] OTHER -> "upload failed"

\* The exception thrown by the catch block: error.response is set whenever
\* the engine answered, whatever the status; then error.code is looked at.
extractionError(eng) ==
    IF eng \in {"4xx", "5xx"} THEN errResp("BadRequest", "detail")
    ELSE IF eng = "refused"
    THEN errResp("InternalServerError", "Python extraction service is not running")
    ELSE IF eng = "timeout"
    THEN errResp("InternalServerError", "Request to Python service timed out")
    ELSE errResp("InternalServerError", "Document extraction failed")

\* catch block of startExtraction: cache the failure and throw the mapped error.
extractFailed(p, eng) ==
    LET c == calls[p] IN
    /\ cache' = [cache EXCEPT ![c.job] =
                    [status |-> "failed", fileUrl |-> EmptyUrl,
                     fileName |-> c.name, data |-> Null,
                     error |-> errorMessage(eng)]]
    /\ setW(p, [c EXCEPT !.pc = "ret", !.eng = eng,
                         !.faults = IF eng = "none" THEN @ \cup {"blob"} ELSE @,
                         !.resp = extractionError(eng)])
    /\ hist' = [hist EXCEPT ![c.job].timedOut = (eng = "timeout"),
                            ![c.job].failed = TRUE,
                            ![c.job].prevResp = NoResp]

\* await storageService.uploadFile(originalKey, ...)
X_UploadOriginal(p) ==
    LET c == calls[p] IN
    /\ c.op = "extract" /\ c.pc = "upload"
    /\ \/ /\ blob' = put(blob, originalKey(c.job, c.name), "doc")
          /\ set(p, [c EXCEPT !.pc = "engine",
                              !.url = uploadUrl(originalKey(c.job, c.name))])
          /\ works
          /\ UNCHANGED <<cache, hist>>
       \/ /\ extractFailed(p, "none")
          /\ fails
          /\ UNCHANGED blob
    /\ UNCHANGED <<db, used>>

\* await httpService.post(.../extract): success, or an axios error that
\* carries a response, ECONNREFUSED, ETIMEDOUT/ECONNABORTED, or another code.
X_Engine(p) ==
    LET c == calls[p] IN
    /\ c.op = "extract" /\ c.pc = "engine"
    /\ \/ /\ set(p, [c EXCEPT !.pc = "putres", !.data = FirstResult,
                              !.eng = "ok"])
          /\ UNCHANGED <<cache, hist>>
       \/ \E eng \in EngineFailures : extractFailed(p, eng)
    /\ UNCHANGED <<db, blob, used, count>>

\* await storageService.uploadFile(outputKey, ...)
X_UploadResult(p) ==
    LET c == calls[p] IN
    /\ c.op = "extract" /\ c.pc = "putres"
    /\ \/ /\ blob' = put(blob, outputKey(c.job, c.name), c.data)
          /\ setW(p, [c EXCEPT !.pc = "cacheset"])
          /\ works
          /\ hist' = [hist EXCEPT ![c.job].stored = outputKey(c.job, c.name)]
          /\ UNCHANGED cache
       \/ /\ extractFailed(p, "none")
          /\ fails
          /\ UNCHANGED blob
    /\ UNCHANGED <<db, used>>

\* completedEntry without the data field.
completedEntry_noData(fileUrl, fileName, data) ==
    [status |-> "completed", fileUrl |-> fileUrl, fileName |-> fileName,
     data |-> Null, error |-> Null]

\* The entry startExtraction caches for a finished extraction.
completedEntry(fileUrl, fileName, data) ==
    [status |-> "completed", fileUrl |-> fileUrl, fileName |-> fileName,
     data |-> data, error |-> Null]

\* jobResultsMap.set(jobId, completed) and the return of startExtraction;
\* extractDocument goes on to await createExtractionJob.
X_CacheSet(p) ==
    LET c == calls[p] IN
    /\ c.op = "extract" /\ c.pc = "cacheset"
    /\ cache' = [cache EXCEPT ![c.job] = completedEntry(c.url, c.name, c.data)]
    /\ setW(p, [c EXCEPT !.pc = "create",
                         !.resp = okResp("success", c.url, c.data, Null)])
    /\ hist' = [hist EXCEPT ![c.job].startRes = c.data,
                            ![c.job].prevResp = NoResp]
    /\ UNCHANGED <<db, blob, used, count>>

\* INSERT of createExtractionJob: status 'pending', no result, no error.
createExtractionJob(userId, fileName, fileUrl) ==
    [status |-> "pending", userId |-> userId, fileName |-> fileName,
     fileUrl |-> fileUrl, result |-> Null, error |-> Null]

\* createFailed that lets the error reach the caller of extractDocument.
createFailed_thrown(c) ==
    [c EXCEPT !.pc = "ret", !.faults = @ \cup {"db"},
              !.resp = errResp("InternalServerError", "Internal server error")]

\* catch (dbError) of extractDocument: a warning is logged, extractionResult
\* is returned as it is.
createFailed(c) == [c EXCEPT !.pc = "ret", !.faults = @ \cup {"db"}]

\* await createExtractionJob(userId, originalname, file_url, jobId) inside
\* try/catch: a failure (store down, or the id already has a row) is logged.
X_CreateJob(p) ==
    LET c == calls[p] IN
    /\ c.op = "extract" /\ c.pc = "create"
    /\ \/ /\ db[c.job].status = "absent"
          /\ db' = [db EXCEPT ![c.job] = createExtractionJob(c.user, c.name, c.url)]
          /\ setW(p, [c EXCEPT !.pc = "ret"])
          /\ works
          /\ UNCHANGED hist
       \/ /\ db[c.job].status # "absent"
          /\ UNCHANGED db
          /\ set(p, createFailed(c))
          /\ works
          /\ hist' = [hist EXCEPT ![c.job].unsaved = TRUE]
       \/ /\ UNCHANGED db
          /\ set(p, createFailed(c))
          /\ fails
          /\ hist' = [hist EXCEPT ![c.job].unsaved = TRUE]
    /\ UNCHANGED <<cache, blob, used>>

\* ------------------------------------------------- GET status/:jobId
\* updateExtractionJob that sets the status and nothing else.
updateExtractionJob_statusOnly(row, status, result, error) ==
    IF row.status = "absent" THEN row ELSE [row EXCEPT !.status = status]

\* UPDATE of updateExtractionJob: status always, result and error only when
\* the argument is not undefined; no row with that id, nothing changes.
updateExtractionJob(row, status, result, error) ==
    IF row.status = "absent" THEN row
    ELSE [row EXCEPT !.status = status,
                     !.result = IF result = "undefined" THEN @ ELSE result,
                     !.error = IF error = "undefined" THEN @ ELSE error]

\* What the service hands back on a cache hit (lines 181-187).
cachedResponse(e) == okResp(e.status, e.fileUrl, e.data, e.error)

\* blobEntry that keeps nothing: the cache is not populated.
blobEntry_notCached(fileName, data) == NoEntry

\* blobResponse that carries a file_url the cached entry does not have.
blobResponse_withUrl(data) == okResp("completed", <<"https">>, data, Null)

\* What the service caches and hands back after reading a result object.
blobEntry(fileName, data) ==
    [status |-> "completed", fileUrl |-> EmptyUrl, fileName |-> fileName,
     data |-> data, error |-> Null]
blobResponse(data) == okResp("completed", EmptyUrl, data, Null)

\* Controller: a completed or failed status is written back to the row.
afterService(status) ==
    IF status \in {"completed", "failed"} THEN "writeback" ELSE "ret"

\* getExtractionStatus up to its first await: the cache lookup.
StartStatus(p) ==
    /\ canStart(p)
    /\ \E j \in JobIds, user \in callers :
        LET e == cache[j]
            b == begin("status", j, "dblookup", user) IN
        IF e.status # "absent"
        THEN /\ set(p, [b EXCEPT !.src = "cache", !.resp = cachedResponse(e),
                                 !.pc = afterService(e.status),
                                 !.had = held(j)])
             /\ hist' = [hist EXCEPT ![j].prevResp =
                            IF e.status = "completed" THEN cachedResponse(e)
                            ELSE NoResp]
        ELSE /\ set(p, [b EXCEPT !.had = hist[j].full])
             /\ UNCHANGED hist
    /\ count' = [count EXCEPT !.calls = @ + 1]
    /\ UNCHANGED <<cache, db, blob, used>>

\* The loop over keysToTry moves to the next key, or leaves for the engine.
nextKey(c) ==
    IF c.kidx < Len(keysToTry(c.job, c.name))
    THEN [c EXCEPT !.pc = "exists", !.kidx = @ + 1]
    ELSE [c EXCEPT !.pc = "engine"]

\* await getExtractionJobById(jobId) inside try/catch: fileName stays null
\* when there is no row or the lookup throws.
S_DbLookup(p) ==
    LET c == [calls[p] EXCEPT !.dbCalls = @ + 1] IN
    /\ c.op = "status" /\ c.pc = "dblookup"
    /\ \/ /\ IF db[c.job].status # "absent" /\ db[c.job].fileName # <<>>
             THEN set(p, [c EXCEPT !.pc = "exists", !.kidx = 1,
                                  !.name = db[c.job].fileName,
                                  !.rowRes = db[c.job].result])
             ELSE set(p, [c EXCEPT !.pc = "engine"])
          /\ works
       \/ /\ set(p, [c EXCEPT !.pc = "engine", !.faults = @ \cup {"db"}])
          /\ fails
    /\ UNCHANGED <<cache, db, blob, used, hist>>

\* await storageService.fileExists(outputKey): true, false, or a throw that
\* the catch inside the loop logs before the next key is tried.
S_FileExists(p) ==
    LET c == calls[p]
        k == keysToTry(c.job, c.name)[c.kidx]
        d == [c EXCEPT !.blobCalls = @ + 1] IN
    /\ c.op = "status" /\ c.pc = "exists"
    /\ \/ /\ IF k \in DOMAIN blob
             THEN set(p, [d EXCEPT !.pc = "getbuf"])
             ELSE set(p, nextKey(d))
          /\ works
       \/ /\ set(p, nextKey([d EXCEPT !.faults = @ \cup {"blob"}]))
          /\ fails
    /\ UNCHANGED <<cache, db, blob, used, hist>>

\* await storageService.getFileBuffer(outputKey): the object's bytes as they
\* are when the store serves the read, or a throw.
S_GetFileBuffer(p) ==
    LET c == calls[p]
        k == keysToTry(c.job, c.name)[c.kidx]
        d == [c EXCEPT !.blobCalls = @ + 1] IN
    /\ c.op = "status" /\ c.pc = "getbuf"
    /\ \/ /\ IF k \in DOMAIN blob
             THEN set(p, [d EXCEPT !.pc = "fill", !.data = blob[k]])
             ELSE set(p, nextKey(d))
          /\ works
       \/ /\ set(p, nextKey([d EXCEPT !.faults = @ \cup {"blob"}]))
          /\ fails
    /\ UNCHANGED <<cache, db, blob, used, hist>>

\* JSON.parse, jobResultsMap.set and the return of the service (231-246).
S_Fill(p) ==
    LET c == calls[p] IN
    /\ c.op = "status" /\ c.pc = "fill"
    /\ cache' = [cache EXCEPT ![c.job] = blobEntry(c.name, c.data)]
    /\ setW(p, [c EXCEPT !.pc = afterService("completed"), !.src = "blob",
                         !.resp = blobResponse(c.data)])
    /\ hist' = [hist EXCEPT ![c.job].prevResp = blobResponse(c.data)]
    /\ UNCHANGED <<db, blob, used, count>>

\* How the status request to the engine failed: HTTP 404, connection
\* refused, or anything else (another HTTP status, a timeout).
StatusFailures == {"404", "refused", "other"}

\* statusError that reports an unknown job as an engine outage.
statusError_unavailable(eng) ==
    IF eng \in {"404", "refused"}
    THEN errResp("InternalServerError", "Python extraction service is not running")
    ELSE errResp("InternalServerError", "Failed to get extraction status")

\* catch block of getExtractionStatus: the exception thrown for each failure.
statusError(eng) ==
    IF eng = "404" THEN errResp("BadRequest", "Job not found")
    ELSE IF eng = "refused"
    THEN errResp("InternalServerError", "Python extraction service is not running")
    ELSE errResp("InternalServerError", "Failed to get extraction status")

\* await httpService.get(.../status/jobId): the engine's answer is returned
\* as it is; 404, ECONNREFUSED and any other error are mapped and thrown.
S_EngineStatus(p) ==
    LET c == [calls[p] EXCEPT !.src = "engine", !.eng = "ok"] IN
    /\ c.op = "status" /\ c.pc = "engine"
    /\ \/ \E st \in {"pending", "processing"} :
             set(p, [c EXCEPT !.pc = afterService(st),
                              !.resp = okResp(st, EmptyUrl, Null, Null)])
       \/ \E r \in Results :
             set(p, [c EXCEPT !.pc = afterService("completed"),
                              !.resp = okResp("completed", EmptyUrl, r, Null)])
       \/ set(p, [c EXCEPT !.pc = afterService("failed"),
                           !.resp = okResp("failed", EmptyUrl, Null, "engine error")])
       \/ \E eng \in StatusFailures :
             set(p, [c EXCEPT !.pc = "ret", !.eng = eng,
                              !.resp = statusError(eng)])
    /\ UNCHANGED <<cache, db, blob, used, count, hist>>

\* writeBackFailed that lets the error reach the caller.
writeBackFailed_thrown(c) ==
    [c EXCEPT !.pc = "ret", !.faults = @ \cup {"db"},
              !.resp = errResp("InternalServerError", "Internal server error")]

\* catch (dbError) of the controller: a warning is logged, nothing else.
writeBackFailed(c) == [c EXCEPT !.pc = "ret", !.faults = @ \cup {"db"}]

\* await updateExtractionJob(jobId, status, data || null, error || undefined)
\* inside try/catch: a failure is logged and the status is returned anyway.
S_WriteBack(p) ==
    LET c == [calls[p] EXCEPT !.dbCalls = @ + 1]
        error == IF c.resp.error = Null THEN "undefined" ELSE c.resp.error IN
    /\ c.op = "status" /\ c.pc = "writeback"
    /\ \/ /\ db' = [db EXCEPT ![c.job] =
                       updateExtractionJob(@, c.resp.status, c.resp.data, error)]
          /\ setW(p, [c EXCEPT !.pc = "ret"])
          /\ works
       \/ /\ UNCHANGED db
          /\ set(p, writeBackFailed(c))
          /\ fails
    /\ UNCHANGED <<cache, blob, used, hist>>

\* ------------------------------------------------- PUT :jobId
\* updateExtractionResult up to its first await; body.data is present.
StartUpdate(p) ==
    /\ canStart(p)
    /\ \E j \in JobIds, d \in Results, user \in callers :
        /\ set(p, [begin("update", j, "lookup", user) EXCEPT !.data = d])
        /\ hist' = [hist EXCEPT ![j].startRes = Null, ![j].lastEdit = Null]
    /\ count' = [count EXCEPT !.calls = @ + 1]
    /\ UNCHANGED <<cache, db, blob, used>>

\* updateFailed that logs the error and reports success.
updateFailed_swallowed(c, store) ==
    [c EXCEPT !.pc = "ret",
              !.faults = IF store = Null THEN @ ELSE @ \cup {store},
              !.resp = okResp("success", EmptyUrl, Null, Null)]

\* catch block of updateExtractionResult: every throw becomes a 400.
updateFailed(c, store) ==
    [c EXCEPT !.pc = "ret",
              !.faults = IF store = Null THEN @ ELSE @ \cup {store},
              !.resp = errResp("BadRequest", "Failed to update extraction result")]

\* jobNotFound with the message of a store failure.
jobNotFound_generic(c) == updateFailed(c, Null)

\* if (!job) throw new BadRequestException('Job not found'): the catch block
\* wraps the message and throws a 400 again.
jobNotFound(c) ==
    [updateFailed(c, Null) EXCEPT
        !.resp = errResp("BadRequest",
                         "Failed to update extraction result: Job not found")]

\* let job = await getExtractionJobById(jobId)
U_Lookup(p) ==
    LET c == calls[p]
        row == db[c.job] IN
    /\ c.op = "update" /\ c.pc = "lookup"
    /\ \/ /\ IF row.status # "absent"
             THEN set(p, [c EXCEPT !.pc = "upload", !.name = row.fileName,
                                  !.url = row.fileUrl])
             ELSE set(p, [c EXCEPT !.pc = "fromcache"])
          /\ works
       \/ /\ set(p, updateFailed(c, "db"))
          /\ fails
    /\ UNCHANGED <<cache, db, blob, used, hist>>

\* if (!job): getJobFromCache(jobId); no entry either, 'Job not found'.
U_FromCache(p) ==
    LET c == calls[p]
        cachedJob == cache[c.job] IN
    /\ c.op = "update" /\ c.pc = "fromcache"
    /\ IF cachedJob.status # "absent"
       THEN set(p, [c EXCEPT !.pc = "create", !.url = cachedJob.fileUrl])
       ELSE set(p, jobNotFound(c))
    /\ UNCHANGED <<cache, db, blob, used, count, hist>>

\* await createExtractionJob('unknown', 'unknown', cachedJob.fileUrl || '', jobId)
U_Create(p) ==
    LET c == calls[p] IN
    /\ c.op = "update" /\ c.pc = "create"
    /\ \/ /\ db[c.job].status = "absent"
          /\ db' = [db EXCEPT ![c.job] =
                       createExtractionJob("unknown", Unknown, c.url)]
          /\ setW(p, [c EXCEPT !.pc = "relookup", !.created = TRUE])
          /\ works
       \/ /\ db[c.job].status # "absent"
          /\ UNCHANGED db
          /\ set(p, updateFailed(c, "db"))
          /\ works
       \/ /\ UNCHANGED db
          /\ set(p, updateFailed(c, "db"))
          /\ fails
    /\ UNCHANGED <<cache, blob, used, hist>>

\* job = await getExtractionJobById(jobId)
U_Relookup(p) ==
    LET c == calls[p]
        row == db[c.job] IN
    /\ c.op = "update" /\ c.pc = "relookup"
    /\ \/ /\ IF row.status # "absent"
             THEN set(p, [c EXCEPT !.pc = "upload", !.name = row.fileName,
                                  !.url = row.fileUrl])
             ELSE set(p, jobNotFound(c))
          /\ works
       \/ /\ set(p, updateFailed(c, "db"))
          /\ fails
    /\ UNCHANGED <<cache, db, blob, used, hist>>

\* await storageService.uploadFile(outputKey, JSON.stringify(body.data), ...)
U_Upload(p) ==
    LET c == calls[p]
        k == outputKey(c.job, c.name) IN
    /\ c.op = "update" /\ c.pc = "upload"
    /\ \/ /\ blob' = put(blob, k, c.data)
          /\ setW(p, [c EXCEPT !.pc = "dbupdate", !.wrote = @ \cup {"blob"},
                               !.old = IF k \in DOMAIN blob THEN blob[k] ELSE Null])
          /\ hist' = [hist EXCEPT ![c.job].full = Null]
          /\ works
       \/ /\ set(p, updateFailed(c, "blob"))
          /\ UNCHANGED <<blob, hist>>
          /\ fails
    /\ UNCHANGED <<cache, db, used>>

\* await updateExtractionJob(jobId, 'completed', body.data)
U_DbUpdate(p) ==
    LET c == calls[p]
        j == c.job IN
    /\ c.op = "update" /\ c.pc = "dbupdate"
    /\ \/ /\ db' = [db EXCEPT ![j] =
                       updateExtractionJob(@, "completed", c.data, "undefined")]
          /\ setW(p, [c EXCEPT !.pc = "cacheset",
                               !.wrote = IF db[j].status = "absent" THEN @
                                         ELSE @ \cup {"db"}])
          /\ hist' = [hist EXCEPT ![j].full = Null]
          /\ works
       \/ /\ fails
          /\ UNCHANGED db
          /\ set(p, updateFailed(c, "db"))
          /\ hist' = [hist EXCEPT ![j].failedEdit =
                         IF c.data \notin {c.old, cache[j].data, db[j].result}
                         THEN c.data ELSE @]
    /\ UNCHANGED <<cache, blob, used>>

\* updateJobResult(jobId, data, fileUrl, fileName): the cache entry is replaced.
updateJobResult(data, fileUrl, fileName) ==
    [status |-> "completed", fileUrl |-> fileUrl, fileName |-> fileName,
     data |-> data, error |-> Null]

\* extractionService.updateJobResult(...) and return { success: true }
U_CacheSet(p) ==
    LET c == calls[p] IN
    /\ c.op = "update" /\ c.pc = "cacheset"
    /\ cache' = [cache EXCEPT ![c.job] = updateJobResult(c.data, c.url, c.name)]
    /\ setW(p, [c EXCEPT !.pc = "ret", !.wrote = @ \cup {"cache"},
                         !.rival = hist[c.job].lastEdit,
                         !.resp = okResp("success", EmptyUrl, Null, Null)])
    /\ hist' = [hist EXCEPT ![c.job].lastEdit = c.data,
                            ![c.job].startRes = Null,
                            ![c.job].prevResp = NoResp]
    /\ UNCHANGED <<db, blob, used, count>>

\* ------------------------------------------------- process
\* The process restarts: jobResultsMap is a module-level Map, so every entry
\* is gone, and the requests that were running are gone with it.
Restart ==
    /\ count.restarts < MaxRestarts
    /\ count' = [count EXCEPT !.restarts = @ + 1]
    /\ cache' = [j \in JobIds |-> NoEntry]
    /\ calls' = [p \in Procs |-> Idle]
    /\ hist' = [j \in JobIds |->
                  [hist[j] EXCEPT !.startRes = Null, !.prevResp = NoResp,
                                  !.lastEdit = Null, !.full = held(j)]]
    /\ UNCHANGED <<db, blob, used>>

\* The response leaves; the task slot is free again.
Return(p) ==
    /\ calls[p].pc = "ret"
    /\ set(p, Idle)
    /\ UNCHANGED <<cache, db, blob, used, count, hist>>


\* A finished request hands over its response before anything else runs:
\* Return touches no store.
Leaving == \E q \in Procs : calls[q].pc = "ret"

Next ==
    \/ \E p \in Procs : ~Leaving /\ StartExtract(p) /\ UNCHANGED aux
    \/ \E p \in Procs : ~Leaving /\ X_UploadOriginal(p) /\ UNCHANGED aux
    \/ \E p \in Procs : ~Leaving /\ X_Engine(p) /\ UNCHANGED aux
    \/ \E p \in Procs : ~Leaving /\ X_UploadResult(p) /\ UNCHANGED aux
    \/ \E p \in Procs : ~Leaving /\ X_CacheSet(p) /\ UNCHANGED aux
    \/ \E p \in Procs : ~Leaving /\ X_CreateJob(p) /\ UNCHANGED aux
    \/ \E p \in Procs : ~Leaving /\ StartStatus(p) /\ UNCHANGED aux
    \/ \E p \in Procs : ~Leaving /\ S_DbLookup(p) /\ UNCHANGED aux
    \/ \E p \in Procs : ~Leaving /\ S_FileExists(p) /\ UNCHANGED aux
    \/ \E p \in Procs : ~Leaving /\ S_GetFileBuffer(p) /\ UNCHANGED aux
    \/ \E p \in Procs : ~Leaving /\ S_Fill(p) /\ UNCHANGED aux
    \/ \E p \in Procs : ~Leaving /\ S_EngineStatus(p) /\ UNCHANGED aux
    \/ \E p \in Procs : ~Leaving /\ S_WriteBack(p) /\ UNCHANGED aux
    \/ \E p \in Procs : ~Leaving /\ StartUpdate(p) /\ UNCHANGED aux
    \/ \E p \in Procs : ~Leaving /\ U_Lookup(p) /\ UNCHANGED aux
    \/ \E p \in Procs : ~Leaving /\ U_FromCache(p) /\ UNCHANGED aux
    \/ \E p \in Procs : ~Leaving /\ U_Create(p) /\ UNCHANGED aux
    \/ \E p \in Procs : ~Leaving /\ U_Relookup(p) /\ UNCHANGED aux
    \/ \E p \in Procs : ~Leaving /\ U_Upload(p) /\ UNCHANGED aux
    \/ \E p \in Procs : ~Leaving /\ U_DbUpdate(p) /\ UNCHANGED aux
    \/ \E p \in Procs : ~Leaving /\ U_CacheSet(p) /\ UNCHANGED aux
    \/ \E p \in Procs : Return(p) /\ UNCHANGED aux
    \/ ~Leaving /\ Restart /\ UNCHANGED aux

Spec == Init /\ [][Next]_vars

\* Every user holds a session: the requests on a job come from any of them.
InitOwner ==
    /\ InitStores
    /\ callers = Users
    /\ InitAuth

SpecOwner == InitOwner /\ [][Next]_vars

\* ------------------------------------------------- sessions
gateway == <<cache, db, blob, calls, used, count, hist, callers>>

\* signupOrLogin / login: the user row is inserted when the e-mail is new,
\* then a session row with a fresh token (nanoid(32), unique column) that
\* expires SessionTTL from now.
SignupOrLogin(u) ==
    /\ \E t \in Tokens :
        /\ sessions[t] = NoSession /\ t \notin revoked
        /\ \A i \in Tokens : i < t => sessions[i] # NoSession \/ i \in revoked
        /\ sessions' = [sessions EXCEPT ![t] =
                            [userId |-> u, expiresAt |-> now + SessionTTL]]
    /\ users' = users \cup {u}
    /\ UNCHANGED <<now, guards, revoked, gateway, client>>

\* signOut(token): DELETE ... RETURNING; true when a row was deleted.
signOut(t) ==
    /\ sessions[t] # NoSession
    /\ sessions' = [sessions EXCEPT ![t] = NoSession]
    /\ revoked' = revoked \cup {t}
    /\ UNCHANGED <<users, now, guards, gateway, client>>

\* A user row is deleted in the database; its sessions go with it
\* (onDelete: 'cascade').
DeleteUser(u) ==
    /\ u \in users
    /\ users' = users \ {u}
    /\ sessions' = [t \in Tokens |->
                       IF sessions[t].userId = u THEN NoSession ELSE sessions[t]]
    /\ UNCHANGED <<now, guards, revoked, gateway, client>>

Tick ==
    /\ now < MaxTime
    /\ now' = now + 1
    /\ UNCHANGED <<sessions, users, guards, revoked, gateway, client>>

\* expired that never holds.
expired_never(t, expiresAt) == FALSE

\* new Date() > sessionData.expiresAt
expired(t, expiresAt) == t > expiresAt

reject(g, msg) == [g EXCEPT !.pc = "done", !.outcome = msg]

\* canActivate up to its first await: the cookie is read; no cookie, 401.
G_Start(i) ==
    /\ guards[i].pc = "idle"
    /\ \A k \in GuardSlots : k < i => guards[k].pc # "idle"
    /\ \E tok \in Tokens \cup {NoToken} :
        LET g == [IdleGuard EXCEPT !.token = tok, !.late = (tok \in revoked)] IN
        guards' = [guards EXCEPT ![i] =
                      IF tok = NoToken THEN reject(g, "No session token found")
                      ELSE [g EXCEPT !.pc = "session"]]
    /\ UNCHANGED <<sessions, users, now, revoked, gateway, client>>

\* getSession: the session row is selected by token; no row, an expired row
\* or a failing query give null, which the guard turns into a 401.
G_Session(i) ==
    LET g == guards[i]
        row == sessions[g.token]
        h == [g EXCEPT !.matched = (row # NoSession),
                       !.fresh = (row # NoSession /\ now <= row.expiresAt)] IN
    /\ g.pc = "session"
    /\ \/ guards' = [guards EXCEPT ![i] =
                        IF row = NoSession \/ expired(now, row.expiresAt)
                        THEN reject(h, "Invalid or expired session")
                        ELSE [h EXCEPT !.pc = "user", !.session = row]]
       \/ guards' = [guards EXCEPT ![i] = reject(h, "Invalid or expired session")]
    /\ UNCHANGED <<sessions, users, now, revoked, gateway, client>>

\* getSession: the user row is selected by the session's userId; no row or a
\* failing query give null; else request.user = session.user and true.
G_User(i) ==
    LET g == guards[i]
        h == [g EXCEPT !.userOk = (g.session.userId \in users)] IN
    /\ g.pc = "user"
    /\ \/ guards' = [guards EXCEPT ![i] =
                        IF g.session.userId \notin users
                        THEN reject(h, "Invalid or expired session")
                        ELSE [h EXCEPT !.pc = "done", !.outcome = "admitted",
                                       !.user = g.session.userId]]
       \/ guards' = [guards EXCEPT ![i] = reject(h, "Invalid or expired session")]
    /\ UNCHANGED <<sessions, users, now, revoked, gateway, client>>

\* The request goes on to its handler, or the 401 is sent.
G_Done(i) ==
    /\ guards[i].pc = "done"
    /\ guards' = [guards EXCEPT ![i] = IdleGuard]
    /\ UNCHANGED <<sessions, users, now, revoked, gateway, client>>

NextAuth ==
    \/ \E u \in Users : SignupOrLogin(u)
    \/ \E t \in Tokens : signOut(t)
    \/ \E u \in Users : DeleteUser(u)
    \/ Tick
    \/ \E i \in GuardSlots : G_Start(i)
    \/ \E i \in GuardSlots : G_Session(i)
    \/ \E i \in GuardSlots : G_User(i)
    \/ \E i \in GuardSlots : G_Done(i)

\* The session tables and the guard alone: no extraction request runs.
InitGuard ==
    /\ cache = [j \in JobIds |-> NoEntry]
    /\ calls = [p \in Procs |-> Idle]
    /\ count = [calls |-> 0, restarts |-> 0, faults |-> 0]
    /\ hist = [j \in JobIds |-> NoHist]
    /\ db = [j \in JobIds |-> NoRow]
    /\ blob = << >>
    /\ used = {}
    /\ callers = {}
    /\ InitAuth

SpecAuth == InitGuard /\ [][NextAuth]_vars

\* ------------------------------------------------- browser client
\* The answers of GET status/:jobId as the client sees them: a non-OK
\* response, or a body with any status, with or without data and error.
Answers ==
    {NoAnswer} \cup
    [ok : {TRUE}, status : {"pending", "processing", "completed", "failed"},
     data : {Null, FirstResult}, error : {Null, "engine error"}]

\* canPoll that allows one attempt more.
canPoll_inclusive(attempts) == attempts <= MAX_POLL_ATTEMPTS

\* while (attempts < MAX_POLL_ATTEMPTS)
canPoll(attempts) == attempts < MAX_POLL_ATTEMPTS

\* await fetch(...): the request is sent and resolves with an answer, or
\* rejects (the network failed) and the rejection leaves the function.
P_Fetch ==
    /\ client.pc = "loop" /\ canPoll(client.attempts)
    /\ \/ \E a \in Answers :
             client' = [client EXCEPT
                          !.pc = "handle", !.response = a, !.requests = @ + 1,
                          !.sawData = @ \/ ( /\ a.ok /\ a.status = "completed"
                                              /\ a.data # Null )]
       \/ client' = [client EXCEPT !.pc = "thrown", !.requests = @ + 1,
                                   !.response = NoAnswer,
                                   !.thrown = "Failed to fetch"]
    /\ UNCHANGED <<gateway, authVars>>

\* The body of the loop after the fetch.
P_Handle ==
    LET a == client.response IN
    /\ client.pc = "handle"
    /\ client' =
          IF ~a.ok
          THEN [client EXCEPT !.pc = "thrown",
                              !.thrown = "Failed to get extraction status"]
          ELSE IF a.status = "completed"
          THEN IF a.data # Null
               THEN [client EXCEPT !.pc = "returned", !.result = a.data]
               ELSE [client EXCEPT !.pc = "thrown",
                        !.thrown = "Extraction completed but no data returned"]
          ELSE IF a.status = "failed"
          THEN [client EXCEPT !.pc = "thrown",
                   !.thrown = IF a.error # Null THEN a.error ELSE "Extraction failed"]
          ELSE [client EXCEPT !.pc = "sleep"]
    /\ UNCHANGED <<gateway, authVars>>

\* await the POLL_INTERVAL timer; attempts++
P_Sleep ==
    /\ client.pc = "sleep"
    /\ client' = [client EXCEPT !.pc = "loop", !.attempts = @ + 1]
    /\ UNCHANGED <<gateway, authVars>>

\* The loop condition is false: throw new Error('Extraction timed out')
P_GiveUp ==
    /\ client.pc = "loop" /\ ~canPoll(client.attempts)
    /\ client' = [client EXCEPT !.pc = "thrown", !.thrown = "Extraction timed out"]
    /\ UNCHANGED <<gateway, authVars>>

NextPoll ==
    \/ P_Fetch
    \/ P_Handle
    \/ P_Sleep
    \/ P_GiveUp

\* The client alone, against every answer the server can give. Each fetch
\* settles and each timer fires.
SpecPoll == InitGuard /\ [][NextPoll]_vars /\ WF_vars(NextPoll)

TypeOK ==
    /\ \A j \in JobIds : cache[j].status \in {"absent", "completed", "failed"}
    /\ \A j \in JobIds : db[j].status \in {"absent", "pending", "completed", "failed"}
    /\ count.calls \in 0..MaxCalls

\* ================================================================ claims
statusDone(c) == c.op = "status" /\ c.pc = "ret"
updateDone(c) == c.op = "update" /\ c.pc = "ret"
completedWith(resp, data) ==
    resp.kind = "ok" /\ resp.status = "completed" /\ resp.data = data
outputKeysOf(j) == {k \in DOMAIN blob : k[1] = "output" /\ k[2] = j}

\* C1: a getStatus that begins after startExtraction returned success with
\* result R, with no updateResult on the job and no restart in between,
\* answers completed with data R.
ThmC1 ==
    \A p \in Procs :
        LET c == calls[p] IN
        statusDone(c) /\ c.seen.startRes # Null
            => completedWith(c.resp, c.seen.startRes)

WitC1 ==
    \E p \in Procs :
        /\ statusDone(calls[p])
        /\ calls[p].seen.startRes = FirstResult
        /\ calls[p].resp.data = FirstResult

\* C2: for a job whose engine call timed out, a getStatus served while the
\* cache entry exists answers failed with a non-empty error, and no object
\* is ever stored under output/{jobId}/.
CexC2 ==
    /\ \A p \in Procs :
          LET c == calls[p] IN
          statusDone(c) /\ c.seen.timedOut /\ c.src = "cache"
              => /\ c.resp.kind = "ok"
                 /\ c.resp.status = "failed"
                 /\ c.resp.error # Null
    /\ \A j \in JobIds : hist[j].timedOut => outputKeysOf(j) = {}

\* C3: when updateResult(J, newResult) returns success and no other request
\* wrote a store of J while it ran, the cache entry of J, the row of J and
\* the result object of J all hold newResult, with status completed.
ThmC3 ==
    \A p \in Procs :
        LET c == calls[p]
            j == c.job IN
        updateDone(c) /\ c.resp.kind = "ok" /\ c.clean
            => /\ cache[j].status = "completed" /\ cache[j].data = c.data
               /\ db[j].status = "completed" /\ db[j].result = c.data
               /\ resultBlob(j) = c.data

WitC3 ==
    \E p \in Procs :
        LET c == calls[p] IN
        /\ updateDone(c) /\ c.resp.kind = "ok" /\ c.clean
        /\ c.data # FirstResult
        /\ c.old = FirstResult

\* C4: once updateResult(J, newResult) has returned success, every getStatus
\* on J that begins before the next updateResult on J answers completed
\* with newResult, whatever getStatus calls were already running.
CexC4 ==
    \A p \in Procs :
        LET c == calls[p] IN
        statusDone(c) /\ c.seen.lastEdit # Null
            => completedWith(c.resp, c.seen.lastEdit)

\* C5: when the durable update of updateResult fails after its blob write,
\* the call reports failure and leaves the cache entry alone, and no later
\* getStatus served from the gateway's stores returns the result of the
\* failed edit.
CexC5 ==
    /\ \A p \in Procs :
          LET c == calls[p] IN
          updateDone(c) /\ "blob" \in c.wrote /\ "db" \in c.faults
              => c.resp.kind # "ok" /\ "cache" \notin c.wrote
    /\ \A p \in Procs :
          LET c == calls[p] IN
          statusDone(c) /\ c.seen.failedEdit # Null /\ c.src \in {"cache", "blob"}
              => c.resp.data # c.seen.failedEdit

\* C6: updateResult reports failure whenever one of its steps failed, and
\* returns success only after the blob, the row and the cache entry were
\* all written by it.
ThmC6 ==
    \A p \in Procs :
        LET c == calls[p] IN
        updateDone(c)
            => /\ c.faults # {} => c.resp.kind # "ok"
               /\ c.resp.kind = "ok" => c.wrote = {"blob", "db", "cache"}

WitC6 ==
    \E p \in Procs :
        LET c == calls[p] IN
        updateDone(c) /\ c.wrote = {"blob"} /\ c.faults = {"db"}

\* C7: a getStatus that misses the cache, finds the row and the result
\* object, and meets no store failure answers completed with the object's
\* content and leaves it in the cache; a getStatus served from the cache
\* makes no blob-store call.
ThmC7 ==
    \A p \in Procs :
        LET c == calls[p]
            j == c.job IN
        /\ ( /\ statusDone(c) /\ c.src # "cache" /\ c.clean /\ c.faults = {}
             /\ db[j].status # "absent" /\ resultBlob(j) # Null )
              => /\ completedWith(c.resp, resultBlob(j))
                 /\ cache[j].status = "completed"
                 /\ cache[j].data = resultBlob(j)
        /\ c.op = "status" /\ c.src = "cache" => c.blobCalls = 0

WitC7 ==
    \E p \in Procs :
        LET c == calls[p] IN
        /\ statusDone(c) /\ c.src = "blob" /\ c.clean /\ c.faults = {}
        /\ c.blobCalls > 0
        /\ cache[c.job].data = resultBlob(c.job)

\* C8: a getStatus on a completed job that begins after an earlier getStatus
\* was answered from the cache or from the blob store, with no write to the
\* job's cache entry in between, returns the same status, data, file_url
\* and error, and makes no blob-store call.
ThmC8 ==
    \A p \in Procs :
        LET c == calls[p] IN
        statusDone(c) /\ c.seen.prevResp # NoResp
            => c.resp = c.seen.prevResp /\ c.blobCalls = 0

WitC8 ==
    \E p \in Procs :
        LET c == calls[p] IN
        /\ statusDone(c) /\ c.seen.prevResp # NoResp
        /\ c.seen.prevResp.file_url = EmptyUrl
        /\ c.resp.status = "completed"

\* C9: on a cache miss with the row present and no store failure, getStatus
\* returns the object under the URL-encoded key when there is one, and the
\* object under the unencoded key when only that one exists.
ThmC9 ==
    \A p \in Procs :
        LET c == calls[p]
            j == c.job
            enc == outputKey(j, db[j].fileName)
            leg == legacyKey(j, db[j].fileName) IN
        ( /\ statusDone(c) /\ c.src # "cache" /\ c.clean /\ c.faults = {}
          /\ db[j].status # "absent" )
            => /\ enc \in DOMAIN blob => completedWith(c.resp, blob[enc])
               /\ enc \notin DOMAIN blob /\ leg \in DOMAIN blob
                     => completedWith(c.resp, blob[leg])

WitC9 ==
    \E p \in Procs :
        LET c == calls[p]
            j == c.job
            enc == outputKey(j, db[j].fileName)
            leg == legacyKey(j, db[j].fileName) IN
        /\ statusDone(c) /\ c.src = "blob" /\ c.clean /\ c.faults = {}
        /\ enc \in DOMAIN blob /\ leg \in DOMAIN blob
        /\ blob[enc] # blob[leg]

\* C10: for a job whose result R is in the cache and the blob store and whose
\* row exists, getStatus answers completed with R when the cache has been
\* lost and both stores work, and when the cache is there and only one of
\* the two stores fails.
ThmC10 ==
    \A p \in Procs :
        LET c == calls[p] IN
        ( /\ statusDone(c) /\ c.clean /\ c.had # Null
          /\ c.src = "cache" => Cardinality(c.faults) <= 1
          /\ c.src # "cache" => c.faults = {} )
            => completedWith(c.resp, c.had)

WitC10 ==
    \E p \in Procs :
        LET c == calls[p] IN
        /\ statusDone(c) /\ c.clean /\ c.had # Null
        /\ c.src = "cache" /\ c.faults = {"db"}

extractDone(c) == c.op = "extract" /\ c.pc = "ret"

\* C11: when the createExtractionJob that follows a successful engine call
\* fails, the extract request still returns success with the file_url and
\* the data of the job; unless another request wrote the job's stores in the
\* meantime, the cache entry is completed with that data and the result
\* object holds it; and a getStatus that begins afterwards, before an
\* updateResult or a restart, answers completed with it.
ThmC11 ==
    /\ \A p \in Procs :
          LET c == calls[p]
              j == c.job
              k == outputKey(j, c.name) IN
          extractDone(c) /\ "db" \in c.faults
              => /\ c.resp = okResp("success", c.url, c.data, Null)
                 /\ c.data # Null /\ c.url # EmptyUrl
                 /\ c.clean => /\ cache[j] = completedEntry(c.url, c.name, c.data)
                               /\ k \in DOMAIN blob /\ blob[k] = c.data
    /\ \A p \in Procs :
          LET c == calls[p] IN
          statusDone(c) /\ c.seen.unsaved /\ c.seen.startRes # Null
              => completedWith(c.resp, c.seen.startRes)

WitC11 ==
    \E p \in Procs :
        LET c == calls[p] IN
        /\ statusDone(c) /\ c.seen.unsaved /\ c.seen.startRes = FirstResult
        /\ db[c.job].status = "absent"
        /\ c.resp.data = FirstResult

\* C12: when the upload of the original document fails, startExtraction
\* fails without calling the engine, and afterwards neither the cache nor
\* the record store holds an entry for the generated job id.
CexC12 ==
    \A p \in Procs :
        LET c == calls[p] IN
        extractDone(c) /\ "blob" \in c.faults /\ c.url = EmptyUrl
            => /\ c.resp.kind # "ok"
               /\ c.eng = "none"
               /\ cache[c.job].status = "absent"
               /\ db[c.job].status = "absent"

\* C13: updateResult for a job id that has neither a row nor a cache entry
\* fails with the job-not-found error, and an updateResult that fails with
\* it has written nothing to the blob store, the record store or the cache.
ThmC13 ==
    \A p \in Procs :
        LET c == calls[p]
            j == c.job
            notFound == errResp("BadRequest",
                                "Failed to update extraction result: Job not found") IN
        /\ ( /\ updateDone(c) /\ c.clean /\ c.faults = {}
             /\ db[j].status = "absent" /\ cache[j].status = "absent" )
              => c.resp = notFound
        /\ updateDone(c) /\ c.resp = notFound
              => /\ c.wrote = {}
                 /\ c.clean => /\ db[j].status = "absent"
                               /\ cache[j].status = "absent"

WitC13 ==
    \E p \in Procs :
        LET c == calls[p] IN
        /\ updateDone(c) /\ c.clean /\ c.faults = {}
        /\ db[c.job].status = "absent" /\ cache[c.job].status = "absent"
        /\ c.resp.kind = "BadRequest"
        /\ c.wrote = {}

\* C14: once the startExtraction of a job has failed, no getStatus answered
\* from the gateway's own stores reports the job as completed, whatever
\* getStatus and updateResult calls were made in between.
CexC14 ==
    \A p \in Procs :
        LET c == calls[p] IN
        statusDone(c) /\ c.seen.failed /\ c.src # "engine"
            => ~(c.resp.kind = "ok" /\ c.resp.status = "completed")

\* C15: a getStatus for a job whose startExtraction is waiting for the
\* engine does not fail with job-not-found or a server error, unless the
\* engine itself cannot be reached.
CexC15 ==
    \A p, q \in Procs :
        LET c == calls[p]
            x == calls[q] IN
        ( /\ statusDone(c)
          /\ x.op = "extract" /\ x.job = c.job /\ x.pc = "engine" )
            => c.resp.kind = "ok" \/ c.eng \in {"refused", "other"}

\* C16: for a job id with no cache entry, no row and no result object that
\* the engine's status endpoint answers with 404, getStatus throws the
\* job-not-found error; that error carries no status value, is not the
\* engine-unavailable error, and is thrown for no other answer.
ThmC16 ==
    \A p \in Procs :
        LET c == calls[p]
            notFound == errResp("BadRequest", "Job not found") IN
        statusDone(c)
            => /\ c.eng = "404" => c.resp = notFound /\ c.resp.status = Null
               /\ c.eng # "404" => c.resp # notFound
               /\ c.eng = "refused"
                     => c.resp.kind = "InternalServerError" /\ c.resp # notFound

WitC16 ==
    \E p \in Procs :
        LET c == calls[p]
            j == c.job IN
        /\ statusDone(c) /\ c.eng = "404" /\ c.clean
        /\ cache[j].status = "absent" /\ db[j].status = "absent"
        /\ outputKeysOf(j) = {}
        /\ c.resp.kind = "BadRequest"

\* C17: startExtraction answers connection refused with the
\* service-unavailable error and a timeout with the timed-out error, and it
\* answers 400 (input rejected) only when the engine returned a client-error
\* status, never for an engine outage or an engine server error.
CexC17 ==
    \A p \in Procs :
        LET c == calls[p] IN
        extractDone(c) /\ c.eng \in EngineFailures
            => /\ c.eng = "refused"
                     => c.resp = errResp("InternalServerError",
                                         "Python extraction service is not running")
               /\ c.eng = "timeout"
                     => c.resp = errResp("InternalServerError",
                                         "Request to Python service timed out")
               /\ c.resp.kind = "BadRequest" => c.eng = "4xx"

\* C18: once the row of a job has status completed, no step of a getStatus
\* or an updateResult gives it another status.
CexC18 ==
    [][\A j \in JobIds : db[j].status = "completed" => db'[j].status = "completed"]_vars

\* C19: on a cache miss where the row holds a result, a getStatus that meets
\* no store failure and no concurrent writer answers completed with the
\* row's result, whatever the blob store and the engine hold.
CexC19 ==
    \A p \in Procs :
        LET c == calls[p] IN
        ( /\ statusDone(c) /\ c.src # "cache" /\ c.clean /\ c.faults = {}
          /\ c.rowRes # Null )
            => completedWith(c.resp, c.rowRes)

\* C20: a getStatus that finds the job in the cache makes no call to the
\* record store and none to the blob store.
CexC20 ==
    \A p \in Procs :
        LET c == calls[p] IN
        c.op = "status" /\ c.src = "cache"
            => c.dbCalls = 0 /\ c.blobCalls = 0

\* C21: the fileName and the fileUrl of a cache entry and of a row never
\* change once the entry or the row exists, whatever startExtraction,
\* getStatus and updateResult calls are made.
CexC21 ==
    [][\A j \in JobIds :
          /\ cache[j].status # "absent" /\ cache'[j].status # "absent"
                => /\ cache'[j].fileName = cache[j].fileName
                   /\ cache'[j].fileUrl = cache[j].fileUrl
          /\ db[j].status # "absent"
                => /\ db'[j].fileName = db[j].fileName
                   /\ db'[j].fileUrl = db[j].fileUrl]_vars

\* C22: the row that updateResult creates when the job has a cache entry
\* and no row carries the fileUrl and the fileName of the cache entry.
CexC22 ==
    \A p \in Procs :
        LET c == calls[p]
            j == c.job IN
        ( /\ c.op = "update" /\ c.pc = "relookup" /\ c.clean
          /\ cache[j].status = "completed" )
            => /\ db[j].fileUrl = cache[j].fileUrl
               /\ db[j].fileName = cache[j].fileName

\* C23: for a job whose result startExtraction stored, the only object
\* under output/{jobId}/ is the one under startExtraction's key, and after
\* an updateResult that returned success with no concurrent writer it holds
\* the new result.
CexC23 ==
    /\ \A j \in JobIds :
          hist[j].stored # <<>> => outputKeysOf(j) \subseteq {hist[j].stored}
    /\ \A p \in Procs :
          LET c == calls[p]
              k == hist[c.job].stored IN
          updateDone(c) /\ c.resp.kind = "ok" /\ c.clean /\ k # <<>>
              => k \in DOMAIN blob /\ blob[k] = c.data

\* C24: every cache entry and every row holds a result only if its status
\* is completed, and an error only if its status is failed.
CexC24 ==
    \A j \in JobIds :
        /\ cache[j].data # Null => cache[j].status = "completed"
        /\ cache[j].error # Null => cache[j].status = "failed"
        /\ db[j].result # Null => db[j].status = "completed"
        /\ db[j].error # Null => db[j].status = "failed"

\* C25: a getStatus that wrote its answer back while an updateResult on the
\* job returned success beside it leaves the row with the result that the
\* cache and the blob store hold.
CexC25 ==
    \A p \in Procs :
        LET c == calls[p]
            j == c.job IN
        ( /\ statusDone(c) /\ c.faults = {}
          /\ c.resp.status \in {"completed", "failed"}
          /\ c.seen.lastEdit = Null /\ hist[j].lastEdit # Null
          /\ cache[j].data = hist[j].lastEdit
          /\ resultBlob(j) = hist[j].lastEdit )
            => db[j].result = hist[j].lastEdit

\* C26: when two updateResult calls on a job overlap and both return
\* success, then once both are done the cache entry, the row and the result
\* object hold the same one of the two results.
CexC26 ==
    \A p \in Procs :
        LET c == calls[p]
            j == c.job IN
        ( /\ updateDone(c) /\ c.resp.kind = "ok" /\ c.rival # Null
          /\ \A q \in Procs \ {p} : calls[q].op = "idle" \/ calls[q].job # j )
            => /\ cache[j].data \in {c.data, c.rival}
               /\ db[j].result = cache[j].data
               /\ resultBlob(j) = cache[j].data

\* C27: when updateResult reports failure, a row it inserted for the job is
\* not in the record store any more.
CexC27 ==
    \A p \in Procs :
        LET c == calls[p] IN
        updateDone(c) /\ c.resp.kind # "ok" /\ c.created
            => db[c.job].status = "absent"

\* C28: a getStatus or an updateResult on a job that has a row succeeds only
\* for the user whose id the row carries.
CexC28 ==
    \A p \in Procs :
        LET c == calls[p] IN
        ( /\ statusDone(c) \/ updateDone(c)
          /\ c.resp.kind = "ok"
          /\ db[c.job].status # "absent" )
            => c.user = db[c.job].userId

guardDone(g) == g.pc = "done"

\* C29: SessionGuard admits a request only if, when it read them, a session
\* row with the request's token existed, the clock had not passed the row's
\* expiresAt and the session's user had a row; the admitted request carries
\* that user; and no request that arrives after signOut(token) returned
\* true is admitted with that token.
ThmC29 ==
    \A i \in GuardSlots :
        LET g == guards[i] IN
        guardDone(g) /\ g.outcome = "admitted"
            => /\ g.token # NoToken
               /\ g.matched /\ g.fresh /\ g.userOk
               /\ g.user = g.session.userId
               /\ ~g.late

WitC29 ==
    \E i \in GuardSlots :
        /\ guardDone(guards[i]) /\ guards[i].outcome = "admitted"
        /\ guards[i].session.expiresAt = now
        /\ guards[i].user \in users

pollDone == client.pc \in {"returned", "thrown"}

pollSafe ==
    LET a == client.response IN
    /\ client.requests <= MAX_POLL_ATTEMPTS
    /\ client.pc = "returned"
          => /\ client.sawData /\ client.result # Null
             /\ a.ok /\ a.status = "completed" /\ client.result = a.data
    /\ pollDone /\ ~(a.ok /\ a.status = "completed" /\ a.data # Null)
          => client.pc = "thrown" /\ client.result = Null
    /\ client.thrown = "Extraction timed out"
          => /\ client.requests = MAX_POLL_ATTEMPTS
             /\ a.ok /\ a.status \in {"pending", "processing"}

\* C30: pollExtractionStatus ends after at most 180 status requests; it
\* returns data only if a response reported completed with data, and it
\* throws on a failed status, a non-OK response, completed without data, and
\* after the 180th response still pending or processing.
ThmC30 == []pollSafe /\ <>pollDone

WitC30 ==
    /\ client.pc = "thrown" /\ client.thrown = "Extraction timed out"
    /\ client.requests = MAX_POLL_ATTEMPTS
    /\ client.attempts = MAX_POLL_ATTEMPTS

====
